---- MODULE Spec2Model ----
(***************************************************************************)
(* NAFI (src/nafi.go): a configuration reader with one string-valued       *)
(* lookup, Get, over four formats: conf (flat key = value lines), ini      *)
(* (sections, held in a gopkg.in/ini.v1 File), json and yaml (nested       *)
(* maps).  A string is a sequence of one-character strings.  A Go map is   *)
(* a function whose domain is its set of keys.                             *)
(***************************************************************************)
EXTENDS Integers, Sequences, FiniteSets, TLC

\* ---------------------------------------------------------------- bounds
\* longest key handed to Get
MaxKeyLen == 3
\* number of lines of the conf content handed to the constructor
MaxLines == 2
\* number of Get calls on one object
MaxGets == 1
\* number of Get calls on one object when the first results are remembered; the
\* last of them repeats a key
MaxRecorded == 3
\* nesting depth of the decoded json / yaml documents
MaxDepth == 2

\* ---------------------------------------------------------------- strings
Strings(chars, n) == UNION {[1..m -> chars] : m \in 0..n}

\* strings.Contains(s, c) for a one-character c
Contains(s, c) == \E i \in 1..Len(s) : s[i] = c

\* strings.Index(s, c) for a one-character c, 1-based, 0 when absent
Index(s, c) ==
  IF Contains(s, c)
  THEN CHOOSE i \in 1..Len(s) : s[i] = c /\ \A j \in 1..(i - 1) : s[j] # c
  ELSE 0

\* strings.LastIndex(s, c) for a one-character c, 1-based, 0 when absent
LastIndex(s, c) ==
  IF Contains(s, c)
  THEN CHOOSE i \in 1..Len(s) : s[i] = c /\ \A j \in (i + 1)..Len(s) : s[j] # c
  ELSE 0

\* strings.Split(s, c): every c separates two parts; no c gives <<s>>
RECURSIVE Split(_, _)
Split(s, c) ==
  IF ~Contains(s, c) THEN <<s>>
  ELSE LET i == Index(s, c)
       IN  <<SubSeq(s, 1, i - 1)>> \o Split(SubSeq(s, i + 1, Len(s)), c)

\* strings.SplitN(s, c, 2): cut at the first c only
SplitN2(s, c) ==
  IF ~Contains(s, c) THEN <<s>>
  ELSE LET i == Index(s, c)
       IN  <<SubSeq(s, 1, i - 1), SubSeq(s, i + 1, Len(s))>>

IsSpace(ch) == ch \in {" ", "\n"}

\* strings.TrimSpace(s)
RECURSIVE TrimLeft(_)
TrimLeft(s) == IF s # <<>> /\ IsSpace(Head(s)) THEN TrimLeft(Tail(s)) ELSE s

RECURSIVE TrimRight(_)
TrimRight(s) ==
  IF s # <<>> /\ IsSpace(s[Len(s)]) THEN TrimRight(SubSeq(s, 1, Len(s) - 1)) ELSE s

TrimSpace(s) == TrimRight(TrimLeft(s))

\* strings.HasPrefix(s, p)
HasPrefix(s, p) == Len(s) >= Len(p) /\ SubSeq(s, 1, Len(p)) = p

\* strings.Replace(s, old, new, -1) for a non-empty old
RECURSIVE ReplaceAll(_, _, _)
ReplaceAll(s, old, new) ==
  IF s = <<>> THEN <<>>
  ELSE IF HasPrefix(s, old)
       THEN new \o ReplaceAll(SubSeq(s, Len(old) + 1, Len(s)), old, new)
       ELSE <<Head(s)>> \o ReplaceAll(Tail(s), old, new)

\* a Go map write m[k] = v
Put(m, k, v) == [x \in (DOMAIN m) \cup {k} |-> IF x = k THEN v ELSE m[x]]

EmptyMap == << >>

\* ---------------------------------------------------------------- conf
\* the loop body of case "conf": one line of the content
ConfLine(m, rawLine) ==
  LET line == TrimSpace(rawLine) IN
  IF line = <<>> \/ HasPrefix(line, <<"#">>) THEN m
  ELSE LET parts == SplitN2(line, "=") IN
       IF Len(parts) = 2
       THEN Put(m, TrimSpace(parts[1]), TrimSpace(parts[2]))
       ELSE m

RECURSIVE ConfLines(_, _)
ConfLines(m, lines) ==
  IF lines = <<>> THEN m ELSE ConfLines(ConfLine(m, Head(lines)), Tail(lines))

\* case "conf" of newConfigParserFromBytes: the raw map built from the content
ParseConf(text) == ConfLines(EmptyMap, Split(text, "\n"))

\* ---------------------------------------------------------------- ini
\* gopkg.in/ini.v1 as nafi.go uses it.  A loaded File is a map from section
\* name to a map from key name to the key's value; the file always holds the
\* default section.
DefaultSection == <<"D", "E", "F", "A", "U", "L", "T">>

\* File.GetSection / File.Section: the empty name means the default section
SecName(name) == IF name = <<>> THEN DefaultSection ELSE name

\* File.Section(name): "assumes the section exists"; a section that does not
\* exist is created empty and returned.  The result is the file afterwards.
Section(f, name) ==
  IF SecName(name) \in DOMAIN f THEN f ELSE Put(f, SecName(name), EmptyMap)

NoKey == [found |-> FALSE, sec |-> <<>>, name |-> <<>>]

\* Section.GetKey(name): the key of this section, else the key of the nearest
\* existing parent section (the section name cut at its last "."), else none.
RECURSIVE GetKey(_, _, _)
RECURSIVE ParentKey(_, _, _)
GetKey(f, sname, kname) ==
  IF sname \in DOMAIN f /\ kname \in DOMAIN f[sname]
  THEN [found |-> TRUE, sec |-> sname, name |-> kname]
  ELSE ParentKey(f, sname, kname)
ParentKey(f, sname, kname) ==
  IF ~Contains(sname, ".") THEN NoKey
  ELSE LET p == SubSeq(sname, 1, LastIndex(sname, ".") - 1) IN
       IF SecName(p) \in DOMAIN f THEN GetKey(f, SecName(p), kname)
       ELSE ParentKey(f, p, kname)

\* Section.Key(name): "assumes the key exists"; a key that does not exist is
\* created with the empty value (NewKey(name, "")), and NewKey refuses the empty
\* name, so Key("") is a nil *Key.  file is the file afterwards.
Key(f, sname, kname) ==
  LET k == GetKey(f, sname, kname) IN
  IF k.found THEN [file |-> f, nil |-> FALSE, sec |-> k.sec, name |-> k.name]
  ELSE IF kname = <<>>
       THEN [file |-> f, nil |-> TRUE, sec |-> sname, name |-> kname]
       ELSE [file |-> Put(f, sname, Put(f[sname], kname, <<>>)),
             nil |-> FALSE, sec |-> sname, name |-> kname]

\* the leftmost match of the pattern %\(([^)]+)\)s in val, as the pair of its
\* first and last positions; <<0, 0>> when there is none
VarMatchAt(val, i) ==
  /\ i + 4 <= Len(val)
  /\ val[i] = "%" /\ val[i + 1] = "("
  /\ val[i + 2] # ")"
  /\ \E j \in (i + 3)..(Len(val) - 1) :
        /\ val[j] = ")" /\ val[j + 1] = "s"
        /\ \A x \in (i + 2)..(j - 1) : val[x] # ")"

VarMatch(val) ==
  IF \E i \in 1..Len(val) : VarMatchAt(val, i)
  THEN LET i == CHOOSE x \in 1..Len(val) :
                   VarMatchAt(val, x) /\ \A y \in 1..(x - 1) : ~VarMatchAt(val, y)
           j == CHOOSE x \in (i + 3)..(Len(val) - 1) :
                   val[x] = ")" /\ \A y \in (i + 2)..(x - 1) : val[y] # ")"
       IN  <<i, j + 1>>
  ELSE <<0, 0>>

\* Key.transformValue: every %(name)s is replaced by the value of the key name
\* of the same section, or of the default section when the same section has
\* none or the key is the key itself; at most 99 rounds; an unresolved
\* reference leaves the value as it is.
RECURSIVE transformValue(_, _, _, _, _)
transformValue(f, sname, kname, val, i) ==
  IF i >= 99 \/ ~Contains(val, "%") THEN val
  ELSE LET m == VarMatch(val) IN
       IF m = <<0, 0>> THEN val
       ELSE LET vr      == SubSeq(val, m[1], m[2])
                noption == SubSeq(val, m[1] + 2, m[2] - 2)
                same    == GetKey(f, sname, noption)
                self    == same.found /\ same.sec = sname /\ same.name = kname
                nk      == IF ~same.found \/ self
                           THEN GetKey(f, DefaultSection, noption)
                           ELSE same
            IN  IF ~nk.found THEN val
                ELSE transformValue(f, sname, kname,
                                    ReplaceAll(val, vr, f[nk.sec][nk.name]), i + 1)

\* Key.String()
String(f, sname, kname) == transformValue(f, sname, kname, f[sname][kname], 0)

\* the chain c.iniFile.Section(section).Key(k).String() of Get: the file after
\* the two calls, whether String() was called on a nil key, and its value
SectionKeyString(f, section, k) ==
  LET f1  == Section(f, section)
      key == Key(f1, SecName(section), k)
  IN  [file  |-> key.file,
       panic |-> key.nil,
       val   |-> IF key.nil THEN <<>> ELSE String(key.file, key.sec, key.name)]

\* ---------------------------------------------------------------- json, yaml
\* a decoded value: a string, a number, nil, or a map of decoded values
StrV(s) == [kind |-> "str", s |-> s]
NumV(n) == [kind |-> "num", n |-> n]
NilV == [kind |-> "nil"]
MapV(m) == [kind |-> "map", m |-> m]

Digit == <<"0", "1", "2", "3", "4", "5", "6", "7", "8", "9">>

RECURSIVE Itoa(_)
Itoa(n) == IF n < 10 THEN <<Digit[n + 1]>> ELSE Itoa(n \div 10) \o <<Digit[(n % 10) + 1]>>

\* byte order of the characters that occur in keys
CharOrder == <<"\n", " ", "#", "%", "(", ")", ".", "=", "a", "s", "v">>

RECURSIVE Less(_, _)
Less(s, t) ==
  IF t = <<>> THEN FALSE
  ELSE IF s = <<>> THEN TRUE
  ELSE IF Head(s) = Head(t) THEN Less(Tail(s), Tail(t))
  ELSE Index(CharOrder, Head(s)) < Index(CharOrder, Head(t))

\* fmt.Sprintf("%v", v): a map prints as map[k:v k:v] with its keys sorted
RECURSIVE Sprint(_)
RECURSIVE SprintEntries(_, _)
Sprint(v) ==
  IF v.kind = "str" THEN v.s
  ELSE IF v.kind = "num" THEN Itoa(v.n)
  ELSE IF v.kind = "nil" THEN <<"<", "n", "i", "l", ">">>
  ELSE <<"m", "a", "p", "[">> \o SprintEntries(v.m, DOMAIN v.m) \o <<"]">>
SprintEntries(m, keys) ==
  IF keys = {} THEN <<>>
  ELSE LET k == CHOOSE x \in keys : \A y \in keys \ {x} : Less(x, y)
       IN  k \o <<":">> \o Sprint(m[k])
             \o (IF keys = {k} THEN <<>> ELSE <<" ">> \o SprintEntries(m, keys \ {k}))

\* the loop of getNestedValue with the ok of "next, ok := curr[part]" ignored: a
\* segment that is not a key yields nil and the walk goes on
RECURSIVE WalkNoOkCheck(_, _)
WalkNoOkCheck(current, parts) ==
  IF parts = <<>> THEN [val |-> current, found |-> TRUE]
  ELSE IF current.kind = "map"
       THEN IF Head(parts) \in DOMAIN current.m
            THEN WalkNoOkCheck(current.m[Head(parts)], Tail(parts))
            ELSE WalkNoOkCheck(NilV, Tail(parts))
       ELSE [val |-> NilV, found |-> FALSE]

\* getNestedValue(data, key): the loop over strings.Split(key, ".")
RECURSIVE Walk(_, _)
Walk(current, parts) ==
  IF parts = <<>> THEN [val |-> current, found |-> TRUE]
  ELSE IF current.kind = "map"
       THEN IF Head(parts) \in DOMAIN current.m
            THEN Walk(current.m[Head(parts)], Tail(parts))
            ELSE [val |-> NilV, found |-> FALSE]
       ELSE [val |-> NilV, found |-> FALSE]

getNestedValue(d, key) == Walk(MapV(d), Split(key, "."))

\* ---------------------------------------------------------------- inputs
FileTypes == {"conf", "ini", "json", "yaml", "unknown", ""}

KeyChars == {"a", "."}

\* the keys handed to Get
Keys == Strings(KeyChars, MaxKeyLen)

\* the lines conf content is made of: blank, a comment, key=value, a pair with
\* spaces around both parts and a second "=", a line without "=", an empty value
ConfInputLines ==
  { <<>>,
    <<"#", "a", "=", "a">>,
    <<"a", "=", "a">>,
    <<" ", "a", "a", " ", "=", " ", "a", "=", "a", " ">>,
    <<"a">>,
    <<"a", "=">> }

\* lines joined by newlines
RECURSIVE JoinLines(_)
JoinLines(lines) ==
  IF Len(lines) = 1 THEN lines[1]
  ELSE lines[1] \o <<"\n">> \o JoinLines(Tail(lines))

\* conf content is handed over as text
TextContents ==
  {[kind |-> "text", text |-> JoinLines(ls)] :
     ls \in UNION {[1..n -> ConfInputLines] : n \in 1..MaxLines}}

\* ini, json and yaml content is handed over as what its decoder makes of it:
\* whether the decoder accepts it, and the document it decodes (for content
\* the decoder rejects, the part decoded before the error)
IniValues == {<<>>, <<"v">>, <<"%", "(", "a", "a", ")", "s">>}

IniSections == {EmptyMap} \cup {[k \in {<<"a">>} |-> v] : v \in IniValues}

IniFiles ==
  {[n \in {DefaultSection} |-> d] : d \in IniSections}
    \cup {[n \in {DefaultSection, <<"a">>} |-> IF n = <<"a">> THEN s ELSE d] :
             d \in IniSections, s \in IniSections}

IniContents == {[kind |-> "ini", ok |-> o, doc |-> f] : o \in BOOLEAN, f \in IniFiles}

Leaves == {StrV(<<>>), StrV(<<"v">>), NumV(22), NilV}

RECURSIVE Values(_)
Values(d) ==
  IF d = 0 THEN Leaves
  ELSE Leaves \cup {MapV(EmptyMap)}
         \cup {MapV([k \in {<<"a">>} |-> v]) : v \in Values(d - 1)}

TopKeys == {<<"a">>, <<"a", "a">>}

Trees == UNION {[ks -> Values(MaxDepth - 1)] : ks \in SUBSET TopKeys}

TreeContents == {[kind |-> "tree", ok |-> o, doc |-> t] : o \in BOOLEAN, t \in Trees}

Contents(ft) ==
  CASE ft = "conf" -> TextContents
    [] ft = "ini" -> IniContents
    [] ft \in {"json", "yaml"} -> TreeContents
    [] OTHER -> TextContents \cup IniContents \cup TreeContents

\* ---------------------------------------------------------------- state
VARIABLES
  parser,     \* "unbuilt"; "nil": newConfigParserFromBytes returned no object;
              \* "zero": ConfigParser returned ConfigParserObj{} and an error;
              \* "obj": the caller holds a constructed object
  tag,        \* the format tag the constructor was handed
  err,        \* the constructor's error: "nil", "unsupported", "decode", "read"
  content,    \* the content the constructor was handed
  fileType,   \* ConfigParserObj.fileType
  raw,        \* ConfigParserObj.raw
  data,       \* ConfigParserObj.data
  iniFile,    \* ConfigParserObj.iniFile: [nil |-> ..., file |-> ...]
  nGets,      \* the number of Get calls so far
  lastKey,    \* the key of the last Get call
  ret,        \* what the last Get call returned: [val |-> ..., err |-> ...]
  first       \* for every key looked up so far, what its first Get call returned

vars == <<parser, tag, err, content, fileType, raw, data, iniFile, nGets, lastKey, ret, first>>

NilFile == [nil |-> TRUE, file |-> EmptyMap]

NoContent == [kind |-> "none"]

NoRet == [val |-> <<>>, err |-> "none"]

\* ---------------------------------------------------------------- decoders
\* ini.Load(content): (file, error)
iniLoad(c) == [file |-> c.doc, err |-> ~c.ok]

\* json.Unmarshal(content, &jsonData): jsonData afterwards, and the error
jsonUnmarshal(c) == [val |-> c.doc, err |-> ~c.ok]

\* yaml.Unmarshal(content, &yamlData): yamlData afterwards, and the error
yamlUnmarshal(c) == [val |-> c.doc, err |-> ~c.ok]

\* ---------------------------------------------------------------- construction
NoObject(e) ==
  [nil |-> TRUE, err |-> e, fileType |-> "", raw |-> EmptyMap, data |-> EmptyMap,
   iniFile |-> NilFile]

Object(ft, r, d, f) ==
  [nil |-> FALSE, err |-> "nil", fileType |-> ft, raw |-> r, data |-> d, iniFile |-> f]

\* the constructor without its default case: an unrecognised tag gets the
\* empty object
newConfigParserAnyTag(ft, c) ==
  CASE ft = "conf" -> Object(ft, ParseConf(c.text), EmptyMap, NilFile)
    [] ft = "ini" ->
         LET l == iniLoad(c) IN
         IF l.err THEN NoObject("decode")
         ELSE Object(ft, EmptyMap, EmptyMap, [nil |-> FALSE, file |-> l.file])
    [] ft = "json" ->
         LET u == jsonUnmarshal(c) IN
         IF u.err THEN NoObject("decode") ELSE Object(ft, EmptyMap, u.val, NilFile)
    [] ft = "yaml" ->
         LET u == yamlUnmarshal(c) IN
         IF u.err THEN NoObject("decode") ELSE Object(ft, EmptyMap, u.val, NilFile)
    [] OTHER -> Object(ft, EmptyMap, EmptyMap, NilFile)

\* the constructor with case "conf" writing every pair to data as well as to raw
newConfigParserConfIntoData(ft, c) ==
  CASE ft = "conf" ->
         Object(ft, ParseConf(c.text),
                [k \in DOMAIN ParseConf(c.text) |-> StrV(ParseConf(c.text)[k])], NilFile)
    [] ft = "ini" ->
         LET l == iniLoad(c) IN
         IF l.err THEN NoObject("decode")
         ELSE Object(ft, EmptyMap, EmptyMap, [nil |-> FALSE, file |-> l.file])
    [] ft = "json" ->
         LET u == jsonUnmarshal(c) IN
         IF u.err THEN NoObject("decode") ELSE Object(ft, EmptyMap, u.val, NilFile)
    [] ft = "yaml" ->
         LET u == yamlUnmarshal(c) IN
         IF u.err THEN NoObject("decode") ELSE Object(ft, EmptyMap, u.val, NilFile)
    [] OTHER -> NoObject("unsupported")

\* newConfigParserFromBytes(fileType, content): the object, or none and the error
newConfigParserFromBytes(ft, c) ==
  CASE ft = "conf" -> Object(ft, ParseConf(c.text), EmptyMap, NilFile)
    [] ft = "ini" ->
         LET l == iniLoad(c) IN
         IF l.err THEN NoObject("decode")
         ELSE Object(ft, EmptyMap, EmptyMap, [nil |-> FALSE, file |-> l.file])
    [] ft = "json" ->
         LET u == jsonUnmarshal(c) IN
         IF u.err THEN NoObject("decode") ELSE Object(ft, EmptyMap, u.val, NilFile)
    [] ft = "yaml" ->
         LET u == yamlUnmarshal(c) IN
         IF u.err THEN NoObject("decode") ELSE Object(ft, EmptyMap, u.val, NilFile)
    [] OTHER -> NoObject("unsupported")

\* ---------------------------------------------------------------- lookup
Result(v, e, f) == [val |-> v, err |-> e, iniFile |-> f]

\* the body of ConfigParserObj.Get: the returned pair and c.iniFile afterwards
GetBody(ft, r, d, f, key) ==
  CASE ft = "conf" ->
         IF key \notin DOMAIN r THEN Result(<<>>, "notfound", f)
         ELSE Result(r[key], "nil", f)
    [] ft = "ini" ->
         IF f.nil THEN Result(<<>>, "panic", f)
         ELSE LET parts   == SplitN2(key, ".")
                  section == IF Contains(key, ".") THEN parts[1] ELSE <<>>
                  k       == IF Contains(key, ".") THEN parts[2] ELSE key
                  s       == SectionKeyString(f.file, section, k)
                  after   == [nil |-> FALSE, file |-> s.file]
              IN  IF s.panic THEN Result(<<>>, "panic", after)
                  ELSE IF s.val = <<>> THEN Result(<<>>, "notfound", after)
                  ELSE Result(s.val, "nil", after)
    [] ft \in {"json", "yaml"} ->
         LET n == getNestedValue(d, key) IN
         IF ~n.found THEN Result(<<>>, "notfound", f)
         ELSE Result(Sprint(n.val), "nil", f)
    [] OTHER -> Result(<<>>, "unsupported", f)

\* ---------------------------------------------------------------- actions
Init ==
  /\ parser = "unbuilt" /\ tag = "" /\ err = "nil" /\ content = NoContent
  /\ fileType = "" /\ raw = EmptyMap /\ data = EmptyMap /\ iniFile = NilFile
  /\ nGets = 0 /\ lastKey = <<>> /\ ret = NoRet /\ first = EmptyMap

Store(o) ==
  /\ err' = o.err
  /\ fileType' = o.fileType /\ raw' = o.raw /\ data' = o.data /\ iniFile' = o.iniFile
  /\ UNCHANGED <<nGets, lastKey, ret, first>>

\* parser, err := newConfigParserFromBytes(ft, c)
NewFromBytes(ft, c) ==
  /\ parser = "unbuilt"
  /\ LET o == newConfigParserFromBytes(ft, c) IN
       /\ parser' = IF o.nil THEN "nil" ELSE "obj"
       /\ tag' = ft
       /\ content' = c
       /\ Store(o)

\* config, err := ConfigParser(path, ft), where reading the path fails or gives
\* c; on an error the caller holds ConfigParserObj{} and nothing of what was read
ConfigParser(ft, readErr, c) ==
  /\ parser = "unbuilt"
  /\ LET o == IF readErr THEN NoObject("read") ELSE newConfigParserFromBytes(ft, c) IN
       /\ parser' = IF o.nil THEN "zero" ELSE "obj"
       /\ tag' = ft
       /\ content' = IF o.nil THEN NoContent ELSE c
       /\ Store(o)

GetStep(key, max) ==
  /\ parser \in {"obj", "zero"} /\ nGets < max /\ ret.err # "panic"
  /\ LET r == GetBody(fileType, raw, data, iniFile, key) IN
       /\ ret' = [val |-> r.val, err |-> r.err]
       /\ iniFile' = r.iniFile
  /\ lastKey' = key
  /\ nGets' = nGets + 1
  /\ UNCHANGED <<parser, tag, err, content, fileType, raw, data>>

\* val, err := c.Get(key)
Get(key) == GetStep(key, MaxGets) /\ UNCHANGED first

\* the same call, with its result remembered when it is the key's first
GetRecorded(key) ==
  /\ key \in DOMAIN first \/ nGets < MaxRecorded - 1
  /\ GetStep(key, MaxRecorded)
  /\ first' = IF key \in DOMAIN first THEN first ELSE Put(first, key, ret')

Build ==
  \E ft \in FileTypes : \E c \in Contents(ft) :
    \/ NewFromBytes(ft, c)
    \/ \E readErr \in BOOLEAN : ConfigParser(ft, readErr, c)

Next == Build \/ \E key \in Keys : Get(key)

Spec == Init /\ [][Next]_vars

NextRecorded == Build \/ \E key \in Keys : GetRecorded(key)

SpecRecorded == Init /\ [][NextRecorded]_vars

\* ---------------------------------------------------------------- reference
\* What the specification says a lookup is, stated over the configuration as
\* it was loaded and without the operators that model the code.
Supported == {"conf", "ini", "json", "yaml"}

Constructed == parser = "obj"

Called == nGets > 0

Pair(v, e) == [val |-> v, err |-> e]

\* the loaded section table
Loaded == content.doc

\* key = section . rest, cut at the first dot
FirstDot(key) == CHOOSE i \in 1..Len(key) : key[i] = "." /\ \A j \in 1..(i - 1) : key[j] # "."

RefSectionOf(key) ==
  IF \A i \in 1..Len(key) : key[i] # "." THEN DefaultSection
  ELSE LET sec == SubSeq(key, 1, FirstDot(key) - 1)
       IN  IF sec = <<>> THEN DefaultSection ELSE sec

RefRestOf(key) ==
  IF \A i \in 1..Len(key) : key[i] # "." THEN key
  ELSE SubSeq(key, FirstDot(key) + 1, Len(key))

RefIniPresent(key) ==
  /\ RefSectionOf(key) \in DOMAIN Loaded
  /\ RefRestOf(key) \in DOMAIN Loaded[RefSectionOf(key)]

RefIni(key) ==
  IF RefIniPresent(key)
  THEN Pair(Loaded[RefSectionOf(key)][RefRestOf(key)], "nil")
  ELSE Pair(<<>>, "notfound")

\* parts joined with dots
RECURSIVE Join(_)
Join(parts) ==
  IF Len(parts) = 1 THEN parts[1]
  ELSE Join(SubSeq(parts, 1, Len(parts) - 1)) \o <<".">> \o parts[Len(parts)]

\* segs is key cut at every dot
IsSegmentsOf(segs, key) ==
  /\ Len(segs) >= 1
  /\ Join(segs) = key
  /\ \A i \in 1..Len(segs) : \A j \in 1..Len(segs[i]) : segs[i][j] # "."

Front(segs) == SubSeq(segs, 1, Len(segs) - 1)

\* the path segs leads from the root to a value: every value before the last
\* segment is a mapping that has the next segment as a key
RECURSIVE RefDefined(_, _)
RECURSIVE RefValue(_, _)
RefDefined(root, segs) ==
  \/ segs = <<>>
  \/ /\ RefDefined(root, Front(segs))
     /\ RefValue(root, Front(segs)).kind = "map"
     /\ segs[Len(segs)] \in DOMAIN RefValue(root, Front(segs)).m
RefValue(root, segs) ==
  IF segs = <<>> THEN root ELSE RefValue(root, Front(segs)).m[segs[Len(segs)]]

\* the key of the last call is a key of the loaded configuration
Present(key) ==
  CASE fileType = "conf" -> key \in DOMAIN raw
    [] fileType = "ini" -> RefIniPresent(key)
    [] OTHER -> RefDefined(MapV(data), Split(key, "."))

\* a non-blank, non-comment line that is not a key = value pair
BadConfLine(line) ==
  LET t == TrimSpace(line) IN t # <<>> /\ t[1] # "#" /\ \A i \in 1..Len(t) : t[i] # "="

Malformed(ft, c) ==
  IF ft = "conf" THEN \E i \in DOMAIN Split(c.text, "\n") : BadConfLine(Split(c.text, "\n")[i])
  ELSE ~c.ok

Populated(p) ==
  CASE p = "raw" -> DOMAIN raw # {}
    [] p = "iniFile" -> ~iniFile.nil
    [] p = "data" -> DOMAIN data # {}

Selected(ft) ==
  CASE ft = "conf" -> "raw"
    [] ft = "ini" -> "iniFile"
    [] OTHER -> "data"

Payloads == {"raw", "iniFile", "data"}

\* ---------------------------------------------------------------- claims
\* C1: for every format and every key absent from the loaded configuration, Get
\* returns an error together with the empty string; Get never returns a
\* non-empty string paired with an error.
C1_AbsentKeyErrorAndEmpty ==
  Called =>
    /\ (Constructed /\ ~Present(lastKey)) => ret = Pair(<<>>, "notfound")
    /\ (ret.err \notin {"nil", "panic"}) => ret.val = <<>>

\* C2: for every format and every key that exists in the loaded configuration,
\* Get returns exactly the stored value as a string and no error.
C2_PresentKeyReturnsStoredValue ==
  (Constructed /\ Called /\ Present(lastKey)) =>
    CASE fileType = "conf" -> ret = Pair(raw[lastKey], "nil")
      [] fileType = "ini" -> ret = RefIni(lastKey)
      [] OTHER ->
           LET v == RefValue(MapV(data), Split(lastKey, ".")) IN
           /\ ret.err = "nil"
           /\ v.kind = "str" => ret.val = v.s
           /\ v.kind = "num" => ret.val = Itoa(v.n)

\* C3: for the ini format, Get(key) is the lookup of key in the unnamed section
\* when key has no dot, and otherwise the lookup of the rest after the first dot,
\* as one literal key, in the section named by what precedes the first dot.
C3_IniGetEqualsReference ==
  (Constructed /\ Called /\ fileType = "ini") => ret = RefIni(lastKey)

C5_GetLeavesObjectUnchanged ==
  [][(parser \in {"obj", "zero"}) =>
       (fileType' = fileType /\ raw' = raw /\ iniFile' = iniFile /\ data' = data)]_vars

\* C6: construction with a format tag other than conf, ini, json or yaml fails
\* with an unsupported-format error and returns no object, whatever the content.
C6_UnsupportedTagFails ==
  (parser # "unbuilt" /\ err # "read" /\ tag \notin Supported) =>
    /\ err = "unsupported"
    /\ parser \in {"nil", "zero"}
    /\ fileType = "" /\ raw = EmptyMap /\ data = EmptyMap /\ iniFile = NilFile

\* construction from empty content with an unrecognised tag has failed
C6_Witness ==
  /\ parser = "nil" /\ tag \notin Supported
  /\ content = [kind |-> "text", text |-> <<>>]
  /\ err = "unsupported"

\* C7: content that is malformed for its declared format makes construction fail
\* with a decode error and return no object; no object is built from the
\* well-formed part.
C7_MalformedFailsConstruction ==
  (parser \in {"nil", "obj"} /\ tag \in Supported /\ Malformed(tag, content)) =>
    parser = "nil" /\ err = "decode"

\* C8: every call Get(k) returns the same pair as the first call Get(k) did,
\* whatever other keys were looked up in between.
C8_RepeatedGetSameResult ==
  (Called /\ lastKey \in DOMAIN first) => ret = first[lastKey]

\* C9: for a successfully constructed object of any of the four formats, Get on a
\* key that does not exist returns the empty string and no error.
C9_MissingKeyNoError ==
  (Constructed /\ Called /\ ~Present(lastKey)) => ret = Pair(<<>>, "nil")

\* C10, as claimed: in every constructed object exactly one of the three payloads
\* is populated, the one the format tag selects.
C10_ExactlyOnePayload ==
  Constructed =>
    /\ Cardinality({p \in Payloads : Populated(p)}) = 1
    /\ Populated(Selected(fileType))

\* C10, amended: in every constructed object the two payloads the format tag does
\* not select are empty or absent, and the selected one is populated unless the
\* accepted content holds no entry.
C10_OtherPayloadsEmpty ==
  Constructed =>
    /\ \A p \in Payloads : Populated(p) => p = Selected(fileType)
    /\ ~Populated(Selected(fileType)) =>
         IF fileType = "conf"
         THEN \A i \in DOMAIN Split(content.text, "\n") :
                 LET t == TrimSpace(Split(content.text, "\n")[i]) IN
                 t = <<>> \/ t[1] = "#" \/ BadConfLine(t)
         ELSE fileType \in {"json", "yaml"} /\ content.doc = EmptyMap

\* a conf object whose flat map holds an entry
C10_Witness ==
  Constructed /\ fileType = "conf" /\ DOMAIN raw # {} /\ DOMAIN data = {} /\ iniFile.nil

====
